---- MODULE Spec2Model ----
(***************************************************************************)
(* Model of execute_mission_workflow.py: the orchestrator main() that      *)
(* health-checks the store, selects the next mission with two priority     *)
(* queries, starts it, executes the work and completes it.                 *)
(*                                                                         *)
(* The store is the pair (missions, events).  missions is the missions     *)
(* table in rowid order; events is the audit trail in the order written.   *)
(* SQLiteClient and MissionRuntime are imported by the script from         *)
(* cmos/context; their behaviour is modelled from the specification        *)
(* (sections 4.1 - 4.3 and 7).                                             *)
(***************************************************************************)
EXTENDS Integers, Sequences, FiniteSets, TLC

VARIABLES
    missions,         \* the missions table: sequence (rowid order) of [id, status]
    events,           \* the event sink: sequence of MissionEvent records
    runs,             \* number of invocations of main() so far
    pc,               \* pc[p]: position of orchestrator p inside main()
    client,           \* client[p]: "none" | "open" | "closed"   (SQLiteClient)
    runtime,          \* runtime[p]: "none" | "open" | "closed"  (MissionRuntime)
    mission_row,      \* mission_row[p]: <<>> (None) or <<row>>
    mission_id,       \* mission_id[p]
    status,           \* status[p]: the status read with the row
    current_mission,  \* current_mission[p]: <<>> or <<row>> (verification lookup)
    work_summary,     \* work_summary[p]
    next_mission,     \* next_mission[p]: completion_result.next_mission, <<>> or <<id>>
    ret,              \* ret[p]: return value of main(), -1 while running
    error,            \* error[p]: what made the run fail, "" if nothing
    steps,            \* steps[p]: the calls the current run made, in order, each
                      \*   with its target mission and its error (history)
    pre,              \* pre[p]: the missions table when the run began (history)
    preEvents         \* preEvents[p]: the events when the run began (history)

vars == <<missions, events, runs, pc, client, runtime, mission_row, mission_id,
          status, current_mission, work_summary, next_mission, ret, error,
          steps, pre, preEvents>>

locals == <<mission_row, mission_id, status, current_mission, work_summary,
            next_mission>>

----------------------------------------------------------------------------
(* Bounds of the model *)

MaxMissions == 3
MaxRuns == 3

\* the interleaved specification explores smaller tables and fewer runs
MaxConcMissions == 2
MaxConcRuns == 2

\* the repeated-run specification: completions can fail until the audit
\* trail holds this many events
MaxLiveEvents == 3

Orchestrators == {1, 2}

----------------------------------------------------------------------------
(* Data model *)

Statuses == {"Queued", "Not Started", "In Progress", "Current", "Completed"}

\* Mission ids are strings; they are modelled as a unique key plus the words
\* the id is made of, which is what the substring tests of step 4 look at.
IdWords ==
    << <<"B1", "Foundation">>,
       <<"B2", "data-protocol">>,
       <<"B3", "test-suite", "data-protocol">>,
       <<"B4", "docs">> >>

MissionIdOf(i) == [key |-> i, words |-> IdWords[((i - 1) % Len(IdWords)) + 1]]

NoId == [key |-> 0, words |-> <<>>]

Row(ms, i) == [id |-> ms[i].id, status |-> ms[i].status]

IndexOf(ms, id) == {i \in DOMAIN ms : ms[i].id = id}

AGENT == "Code Agent"

----------------------------------------------------------------------------
(* Step 2: the two selection queries *)

\* mutant: the new-work filter also lets Completed rows through
NewWorkStatuses_withCompleted == {"Queued", "Not Started", "Completed"}

NewWorkStatuses == {"Queued", "Not Started"}

\* mutant: the two ranks of the new-work query swapped
NewWorkRank_swapped(s) ==
    CASE s = "Queued" -> 1
      [] s = "Not Started" -> 0
      [] OTHER -> -1

NewWorkRank(s) ==
    CASE s = "Queued" -> 0
      [] s = "Not Started" -> 1
      [] OTHER -> -1

\* mutant: the active query only looks for In Progress rows
ActiveStatuses_inProgressOnly == {"In Progress"}

ActiveStatuses == {"In Progress", "Current"}

\* mutant: the two ranks of the active query swapped
ActiveRank_swapped(s) ==
    CASE s = "In Progress" -> 1
      [] s = "Current" -> 0
      [] OTHER -> -1

ActiveRank(s) ==
    CASE s = "In Progress" -> 0
      [] s = "Current" -> 1
      [] OTHER -> -1

\* mutant: ORDER BY <rank>, rowid DESC
OrderedBefore_desc(ri, i, rj, j) == ri < rj \/ (ri = rj /\ i >= j)

\* ORDER BY <rank>, rowid: row i sorts no later than row j
OrderedBefore(ri, i, rj, j) == ri < rj \/ (ri = rj /\ i <= j)

\* SELECT id, status FROM missions WHERE status IN <set> ORDER BY ... LIMIT 1
fetchone(ms, set, rank) ==
    LET cand == {i \in DOMAIN ms : ms[i].status \in set}
    IN IF cand = {} THEN <<>>
       ELSE LET first == CHOOSE i \in cand : \A j \in cand :
                    OrderedBefore(rank[ms[i].status], i, rank[ms[j].status], j)
            IN << Row(ms, first) >>

new_work_query(ms) ==
    fetchone(ms, NewWorkStatuses, [s \in Statuses |-> NewWorkRank(s)])

active_query(ms) ==
    fetchone(ms, ActiveStatuses, [s \in Statuses |-> ActiveRank(s)])

\* mutant: the active query is run whatever the new-work query found
NeedActiveQuery_always(row) == TRUE

\* line 62: if not mission_row -> run the active query
NeedActiveQuery(row) == row = <<>>

----------------------------------------------------------------------------
(* MissionRuntime (cmos/context/mission_runtime.py) *)

\* Repository nextCandidate(): new-work tier first, then the active tier
fetch_next_candidate(ms) ==
    IF new_work_query(ms) # <<>> THEN new_work_query(ms) ELSE active_query(ms)

MissionEvent(id, kind, agent, summary, notes) ==
    [mission_id |-> id, kind |-> kind, agent |-> agent,
     summary |-> summary, notes |-> notes]

Failure(ms, evs, err) ==
    [ok |-> FALSE, error |-> err, missions |-> ms, events |-> evs, next |-> <<>>]

\* mutant: start does not look at the status it overwrites
start_mission_anyStatus(ms, evs, id, agent, summary) ==
    LET at == IndexOf(ms, id) IN
    IF at = {} THEN Failure(ms, evs, "NotFound")
    ELSE LET i == CHOOSE i \in at : TRUE IN
         [ok |-> TRUE, error |-> "",
          missions |-> [ms EXCEPT ![i].status = "In Progress"],
          events |-> Append(evs, MissionEvent(id, "Started", agent, summary, <<>>)),
          next |-> <<>>]

start_mission(ms, evs, id, agent, summary) ==
    LET at == IndexOf(ms, id) IN
    IF at = {} THEN Failure(ms, evs, "NotFound")
    ELSE LET i == CHOOSE i \in at : TRUE IN
         IF ms[i].status = "Completed" THEN Failure(ms, evs, "InvalidTransition")
         ELSE [ok |-> TRUE, error |-> "",
               missions |-> [ms EXCEPT ![i].status = "In Progress"],
               events |-> Append(evs, MissionEvent(id, "Started", agent, summary, <<>>)),
               next |-> <<>>]

complete_mission(ms, evs, id, agent, summary, notes) ==
    LET at == IndexOf(ms, id) IN
    IF at = {} THEN Failure(ms, evs, "NotFound")
    ELSE LET i == CHOOSE i \in at : TRUE IN
         IF ms[i].status \notin ActiveStatuses
         THEN Failure(ms, evs, "InvalidTransition")
         ELSE LET done == [ms EXCEPT ![i].status = "Completed"]
                  cand == fetch_next_candidate(done)
              IN [ok |-> TRUE, error |-> "",
                  missions |-> done,
                  events |-> Append(evs, MissionEvent(id, "Completed", agent, summary, notes)),
                  next |-> IF cand = <<>> THEN <<>> ELSE << cand[1].id >>]

----------------------------------------------------------------------------
(* Step 4: the simulated work *)

Lower(w) == IF w = "Foundation" THEN "foundation" ELSE w

\* "<sub>" in mission_id.lower()
Contains(id, sub) == \E k \in DOMAIN id.words : Lower(id.words[k]) = sub

WorkSummary(id) ==
    IF Contains(id, "foundation")
    THEN "Implemented foundation utilities with 100% test coverage"
    ELSE IF Contains(id, "data-protocol")
    THEN "Completed data protocol implementation with validation"
    ELSE IF Contains(id, "test-suite")
    THEN "Completed test suite with 100% coverage"
    ELSE "Completed mission work"

StartSummary(id) == <<"Starting mission", id>>

CompleteSummary(ws) == <<ws>>

CompleteNotes(id, ws) == <<"Mission", id, "completed successfully.", ws>>

----------------------------------------------------------------------------
(* Initial states: any missions table of at most MaxMissions rows *)

MissionTables(max) ==
    UNION { { [i \in 1..n |-> [id |-> MissionIdOf(i), status |-> f[i]]] :
                f \in [1..n -> Statuses] } : n \in 0..max }

InitWith(tables) ==
    /\ missions \in tables
    /\ events = <<>>
    /\ runs = 0
    /\ pc = [p \in Orchestrators |-> "idle"]
    /\ client = [p \in Orchestrators |-> "none"]
    /\ runtime = [p \in Orchestrators |-> "none"]
    /\ mission_row = [p \in Orchestrators |-> <<>>]
    /\ mission_id = [p \in Orchestrators |-> NoId]
    /\ status = [p \in Orchestrators |-> ""]
    /\ current_mission = [p \in Orchestrators |-> <<>>]
    /\ work_summary = [p \in Orchestrators |-> ""]
    /\ next_mission = [p \in Orchestrators |-> <<>>]
    /\ ret = [p \in Orchestrators |-> -1]
    /\ error = [p \in Orchestrators |-> ""]
    /\ steps = [p \in Orchestrators |-> <<>>]
    /\ pre = [p \in Orchestrators |-> <<>>]
    /\ preEvents = [p \in Orchestrators |-> <<>>]

Init == InitWith(MissionTables(MaxMissions))

InitConc == InitWith(MissionTables(MaxConcMissions))

----------------------------------------------------------------------------
(* The steps of main() *)

Call(name, id, err) == [call |-> name, id |-> id, error |-> err]

Log(p, name, id, err) == steps' = [steps EXCEPT ![p] = Append(@, Call(name, id, err))]

Return(p, code, err) ==
    /\ pc' = [pc EXCEPT ![p] = "done"]
    /\ ret' = [ret EXCEPT ![p] = code]
    /\ error' = [error EXCEPT ![p] = err]

Goto(p, label) ==
    /\ pc' = [pc EXCEPT ![p] = label]
    /\ UNCHANGED <<ret, error>>

\* A process is launched: main() is entered with fresh locals.
Enter(p) ==
    /\ pc[p] \in {"idle", "done"}
    /\ pc' = [pc EXCEPT ![p] = "health_check"]
    /\ client' = [client EXCEPT ![p] = "none"]
    /\ runtime' = [runtime EXCEPT ![p] = "none"]
    /\ mission_row' = [mission_row EXCEPT ![p] = <<>>]
    /\ mission_id' = [mission_id EXCEPT ![p] = NoId]
    /\ status' = [status EXCEPT ![p] = ""]
    /\ current_mission' = [current_mission EXCEPT ![p] = <<>>]
    /\ work_summary' = [work_summary EXCEPT ![p] = ""]
    /\ next_mission' = [next_mission EXCEPT ![p] = <<>>]
    /\ ret' = [ret EXCEPT ![p] = -1]
    /\ error' = [error EXCEPT ![p] = ""]
    /\ steps' = [steps EXCEPT ![p] = <<>>]
    /\ pre' = [pre EXCEPT ![p] = missions]
    /\ preEvents' = [preEvents EXCEPT ![p] = events]
    /\ UNCHANGED <<missions, events>>

\* the script is launched at most limit times
Invoke(p, limit) ==
    /\ runs < limit
    /\ runs' = runs + 1
    /\ Enter(p)

\* mutant: the failed health check is reported and the run goes on
HealthFailed_continue(p, err) == Goto(p, "new_work_query")

\* lines 26-28 and 29-31: the health check did not succeed
HealthFailed(p, err) == Return(p, 1, err)

\* Step 1, lines 21-31
HealthCheck(p) ==
    /\ pc[p] = "health_check"
    /\ \E outcome \in {"missing", "unreachable", "unhealthy", "ok"} :
         \* "missing": SQLiteClient(...) raises DatabaseUnavailable
         \* "unreachable": health_check() raises DatabaseUnavailable
         LET err == CASE outcome = "ok" -> ""
                      [] outcome = "unhealthy" -> "Unhealthy"
                      [] OTHER -> "DatabaseUnavailable"
         IN /\ Log(p, "health_check", NoId, err)
            /\ client' = [client EXCEPT ![p] =
                            IF outcome = "missing" THEN "none" ELSE "open"]
            /\ IF err = "" THEN Goto(p, "new_work_query") ELSE HealthFailed(p, err)
    /\ UNCHANGED <<missions, events, runs, runtime, locals, pre, preEvents>>

\* mutant: the run goes from the selection straight to the verification
Selected_skipStart(p, row) ==
    /\ mission_row' = [mission_row EXCEPT ![p] = row]
    /\ mission_id' = [mission_id EXCEPT ![p] = row[1].id]
    /\ status' = [status EXCEPT ![p] = row[1].status]
    /\ client' = [client EXCEPT ![p] = "closed"]
    /\ Goto(p, "fetch_next_candidate")

\* mutant: only new work is started; a mission that is already active goes
\* straight to the work
Selected_startNewOnly(p, row) ==
    /\ mission_row' = [mission_row EXCEPT ![p] = row]
    /\ mission_id' = [mission_id EXCEPT ![p] = row[1].id]
    /\ status' = [status EXCEPT ![p] = row[1].status]
    /\ client' = [client EXCEPT ![p] = "closed"]
    /\ Goto(p, IF row[1].status \in NewWorkStatuses THEN "start_mission" ELSE "work")

\* lines 70-76 and the finally of line 82: a row was found
Selected(p, row) ==
    /\ mission_row' = [mission_row EXCEPT ![p] = row]
    /\ mission_id' = [mission_id EXCEPT ![p] = row[1].id]
    /\ status' = [status EXCEPT ![p] = row[1].status]
    /\ client' = [client EXCEPT ![p] = "closed"]
    /\ Goto(p, "start_mission")

\* the except of lines 78-80 and the finally of line 82
QueryFailed(p) ==
    /\ client' = [client EXCEPT ![p] = "closed"]
    /\ Return(p, 1, "QueryError")
    /\ UNCHANGED <<mission_row, mission_id, status>>

\* lines 66-68 and the finally of line 82: neither query found a row
NoMission(p, row) ==
    /\ mission_row' = [mission_row EXCEPT ![p] = row]
    /\ client' = [client EXCEPT ![p] = "closed"]
    /\ Return(p, 1, "NoMission")
    /\ UNCHANGED <<mission_id, status>>

\* Step 2, lines 58-62 (and 66-82 when a row is found)
NewWorkQuery(p) ==
    /\ pc[p] = "new_work_query"
    /\ \E raises \in BOOLEAN :
         /\ Log(p, "new_work_query", NoId, IF raises THEN "QueryError" ELSE "")
         /\ IF raises THEN QueryFailed(p)
            ELSE LET row == new_work_query(missions) IN
                 IF NeedActiveQuery(row)
                 THEN /\ mission_row' = [mission_row EXCEPT ![p] = row]
                      /\ Goto(p, "active_query")
                      /\ UNCHANGED <<mission_id, status, client>>
                 ELSE Selected(p, row)
    /\ UNCHANGED <<missions, events, runs, runtime, current_mission,
                   work_summary, next_mission, pre, preEvents>>

\* Step 2, lines 64-82
ActiveQuery(p) ==
    /\ pc[p] = "active_query"
    /\ \E raises \in BOOLEAN :
         /\ Log(p, "active_query", NoId, IF raises THEN "QueryError" ELSE "")
         /\ IF raises THEN QueryFailed(p)
            ELSE LET row == active_query(missions) IN
                 IF row = <<>> THEN NoMission(p, row) ELSE Selected(p, row)
    /\ UNCHANGED <<missions, events, runs, runtime, current_mission,
                   work_summary, next_mission, pre, preEvents>>

\* mutant: the start error is reported and the run goes on
StartFailed_swallow(p, err) == Goto(p, "fetch_next_candidate")

\* mutant: the start error is reported and the run returns 0
StartFailed_returnsZero(p, err) == Return(p, 0, err)

\* lines 108-110: MissionRuntimeError while starting
StartFailed(p, err) == Return(p, 1, err)

\* mutant: start_mission is called on the first row of the table
StartTarget_firstRow(p) == IF missions = <<>> THEN NoId ELSE missions[1].id

\* line 92: the mission start_mission is called on
StartTarget(p) == mission_id[p]

\* Step 3, lines 86-96 and 108-110
StartMission(p) ==
    /\ pc[p] = "start_mission"
    /\ runtime' = [runtime EXCEPT ![p] = "open"]
    /\ \E fault \in BOOLEAN :
         \* fault: the store fails while the valid transition is persisted
         LET attempt == start_mission(missions, events, StartTarget(p), AGENT,
                                      StartSummary(mission_id[p]))
             result == IF fault /\ attempt.ok
                       THEN Failure(missions, events, "StoreError") ELSE attempt
         IN /\ Log(p, "start_mission", StartTarget(p), result.error)
            /\ missions' = result.missions
            /\ events' = result.events
            /\ IF result.ok THEN Goto(p, "fetch_next_candidate")
               ELSE StartFailed(p, result.error)
    /\ UNCHANGED <<runs, client, locals, pre, preEvents>>

\* Step 3, lines 100-106
Verify(p) ==
    /\ pc[p] = "fetch_next_candidate"
    /\ Log(p, "fetch_next_candidate", NoId, "")
    /\ current_mission' = [current_mission EXCEPT ![p] = fetch_next_candidate(missions)]
    /\ Goto(p, "work")
    /\ UNCHANGED <<missions, events, runs, client, runtime, mission_row,
                   mission_id, status, work_summary, next_mission, pre, preEvents>>

\* Step 4, lines 112-140
ExecuteWork(p) ==
    /\ pc[p] = "work"
    /\ Log(p, "work", NoId, "")
    /\ work_summary' = [work_summary EXCEPT ![p] = WorkSummary(mission_id[p])]
    /\ Goto(p, "complete_mission")
    /\ UNCHANGED <<missions, events, runs, client, runtime, mission_row,
                   mission_id, status, current_mission, next_mission, pre, preEvents>>

\* mutant: the completion error is reported and the run returns 0
CompleteFailed_returnsZero(p, err) == Return(p, 0, err)

\* lines 156-158: MissionRuntimeError while completing
CompleteFailed(p, err) == Return(p, 1, err)

\* mutant: complete_mission is called on the mission the verification found
CompleteTarget_current(p) ==
    IF current_mission[p] = <<>> THEN NoId ELSE current_mission[p][1].id

\* line 146: the mission complete_mission is called on
CompleteTarget(p) == mission_id[p]

\* Step 5, lines 144-163
CompleteMission(p) ==
    /\ pc[p] = "complete_mission"
    /\ runtime' = [runtime EXCEPT ![p] = "closed"]
    /\ \E fault \in BOOLEAN :
         \* fault: the store fails while the valid transition is persisted
         LET attempt == complete_mission(missions, events, CompleteTarget(p), AGENT,
                                         CompleteSummary(work_summary[p]),
                                         CompleteNotes(mission_id[p], work_summary[p]))
             result == IF fault /\ attempt.ok
                       THEN Failure(missions, events, "StoreError") ELSE attempt
         IN /\ Log(p, "complete_mission", CompleteTarget(p), result.error)
            /\ missions' = result.missions
            /\ events' = result.events
            /\ next_mission' = [next_mission EXCEPT ![p] = result.next]
            /\ IF result.ok THEN Return(p, 0, "")
               ELSE CompleteFailed(p, result.error)
    /\ UNCHANGED <<runs, client, mission_row, mission_id, status,
                   current_mission, work_summary, pre, preEvents>>

main(p, limit) ==
    \/ Invoke(p, limit)
    \/ HealthCheck(p)
    \/ NewWorkQuery(p)
    \/ ActiveQuery(p)
    \/ StartMission(p)
    \/ Verify(p)
    \/ ExecuteWork(p)
    \/ CompleteMission(p)

\* One orchestrator, run again and again
Next == main(1, MaxRuns)

Spec == Init /\ [][Next]_vars

\* Two orchestrators whose steps interleave on the same store
NextConc == \E p \in Orchestrators : main(p, MaxConcRuns)

SpecConc == InitConc /\ [][NextConc]_vars

\* One orchestrator that is launched again for ever.  The store stops
\* failing a completion once MaxLiveEvents events have been written, which
\* keeps the audit trail finite.
InvokeLive(p) == Enter(p) /\ UNCHANGED runs

CompleteLive(p) ==
    /\ CompleteMission(p)
    /\ ret'[p] = 1 => Len(events) < MaxLiveEvents

NextLive ==
    \/ InvokeLive(1)
    \/ HealthCheck(1)
    \/ NewWorkQuery(1)
    \/ ActiveQuery(1)
    \/ StartMission(1)
    \/ Verify(1)
    \/ ExecuteWork(1)
    \/ CompleteLive(1)

\* The script is run repeatedly and every step is taken (weak fairness); the
\* health check, the queries, start and complete eventually succeed (strong
\* fairness of their successful outcome).
SpecLive ==
    /\ Init
    /\ [][NextLive]_vars
    /\ WF_vars(NextLive)
    /\ SF_vars(HealthCheck(1) /\ pc'[1] = "new_work_query")
    /\ SF_vars(NewWorkQuery(1) /\ pc'[1] # "done")
    /\ SF_vars(ActiveQuery(1) /\ error'[1] # "QueryError")
    /\ SF_vars(StartMission(1) /\ pc'[1] # "done")
    /\ SF_vars(CompleteLive(1) /\ ret'[1] = 0)

----------------------------------------------------------------------------
(* Vocabulary of the properties *)

Has(ms, s) == \E i \in DOMAIN ms : ms[i].status = s

HasNewWork(ms) == Has(ms, "Queued") \/ Has(ms, "Not Started")

HasActive(ms) == Has(ms, "In Progress") \/ Has(ms, "Current")

CallNames(p) == [k \in DOMAIN steps[p] |-> steps[p][k].call]

Called(p, name) == \E k \in DOMAIN steps[p] : steps[p][k].call = name

LastCall(p) == steps[p][Len(steps[p])]

\* orchestrator p has selected a mission and not yet started it
JustSelected(p) == pc[p] = "start_mission"

----------------------------------------------------------------------------
(* Candidate selection (single orchestrator: the table does not change      *)
(* between the query and the start)                                         *)

\* C1: whenever the table holds a Queued and a Not Started mission, the
\* mission the run selected came from the new-work query and is Queued,
\* wherever the Queued mission sits in insertion order.
C1_QueuedBeatsNotStarted ==
    \A p \in Orchestrators :
        (JustSelected(p) /\ Has(missions, "Queued") /\ Has(missions, "Not Started"))
        => /\ status[p] = "Queued"
           /\ LastCall(p).call = "new_work_query"
           /\ \E i \in IndexOf(missions, mission_id[p]) : missions[i].status = "Queued"

\* a Not Started mission was inserted before the Queued one that was selected
C1_Witness ==
    /\ JustSelected(1)
    /\ \E i, j \in DOMAIN missions :
         /\ i < j
         /\ missions[i].status = "Not Started"
         /\ missions[j].status = "Queued"
         /\ mission_id[1] = missions[j].id

\* C2: the selected mission is the earliest inserted (smallest rowid) of the
\* missions that share its status; when the only new-work candidates are
\* Not Started, it is the earliest-inserted Not Started mission.
C2_EarliestInserted ==
    \A p \in Orchestrators :
        JustSelected(p)
        => /\ \E i \in IndexOf(missions, mission_id[p]) :
                /\ missions[i].status = status[p]
                /\ \A j \in DOMAIN missions :
                     missions[j].status = status[p] => i <= j
           /\ (Has(missions, "Not Started") /\ ~Has(missions, "Queued"))
                => status[p] = "Not Started"

\* two Not Started missions, no Queued one, the first of them selected
C2_Witness ==
    /\ JustSelected(1)
    /\ ~Has(missions, "Queued")
    /\ status[1] = "Not Started"
    /\ \E i, j \in DOMAIN missions :
         /\ i < j
         /\ missions[i].status = "Not Started"
         /\ missions[j].status = "Not Started"
         /\ mission_id[1] = missions[i].id

\* C3: while any Queued or Not Started mission exists the selected mission is
\* never In Progress or Current; with no new work but an In Progress and a
\* Current mission, the selected mission is an In Progress one.
C3_ActiveTierLast ==
    \A p \in Orchestrators :
        JustSelected(p)
        => /\ HasNewWork(missions)
                => /\ status[p] \notin {"In Progress", "Current"}
                   /\ ~Called(p, "active_query")
           /\ (~HasNewWork(missions) /\ Has(missions, "In Progress")
                                     /\ Has(missions, "Current"))
                => /\ status[p] = "In Progress"
                   /\ \E i \in IndexOf(missions, mission_id[p]) :
                        missions[i].status = "In Progress"

\* no new work, a Current mission inserted before the In Progress one selected
C3_Witness ==
    /\ JustSelected(1)
    /\ ~HasNewWork(missions)
    /\ \E i, j \in DOMAIN missions :
         /\ i < j
         /\ missions[i].status = "Current"
         /\ missions[j].status = "In Progress"
         /\ mission_id[1] = missions[j].id

\* C4: a run that began on a table with no Queued, Not Started, In Progress
\* or Current mission selects nothing, never calls start or complete, leaves
\* the missions and the events as they were, and ends with outcome 1.
C4_NothingToDo ==
    \A p \in Orchestrators :
        (pc[p] # "idle" /\ ~HasNewWork(pre[p]) /\ ~HasActive(pre[p]))
        => /\ mission_row[p] = <<>>
           /\ mission_id[p] = NoId
           /\ ~Called(p, "start_mission")
           /\ ~Called(p, "complete_mission")
           /\ missions = pre[p]
           /\ events = preEvents[p]
           /\ pc[p] \in {"health_check", "new_work_query", "active_query", "done"}
           /\ pc[p] = "done" => ret[p] = 1

\* both queries ran on a table of Completed missions and found nothing
C4_Witness ==
    /\ pc[1] = "done"
    /\ error[1] = "NoMission"
    /\ Len(missions) >= 2
    /\ \A i \in DOMAIN missions : missions[i].status = "Completed"

----------------------------------------------------------------------------
(* The sequence of a run *)

IsPrefix(a, b) == Len(a) <= Len(b) /\ \A k \in DOMAIN a : a[k] = b[k]

Count(p, name) == Cardinality({k \in DOMAIN steps[p] : steps[p][k].call = name})

OrderAsClaimed(withActive) ==
    <<"health_check", "new_work_query">>
    \o (IF withActive THEN <<"active_query">> ELSE <<>>)
    \o <<"start_mission", "work", "complete_mission">>

OrderWithVerification(withActive) ==
    <<"health_check", "new_work_query">>
    \o (IF withActive THEN <<"active_query">> ELSE <<>>)
    \o <<"start_mission", "fetch_next_candidate", "work", "complete_mission">>

\* C5, as claimed: the calls of a run are, in order, health check, selection
\* (new-work query, active query), start, work, complete (whose result
\* carries the next candidate), with no candidate lookup between start and
\* complete.
C5_AsClaimed ==
    \A p \in Orchestrators :
        \E withActive \in BOOLEAN : IsPrefix(CallNames(p), OrderAsClaimed(withActive))

\* C5, amended: the calls of a run are, in order, health check, selection
\* (new-work query, then the active query only if it found nothing), start,
\* the verification lookup of the next candidate, work, complete; a call is
\* made only after every earlier call of the run succeeded.
C5_StepOrder ==
    \A p \in Orchestrators :
        /\ \E withActive \in BOOLEAN :
             IsPrefix(CallNames(p), OrderWithVerification(withActive))
        /\ \A k \in DOMAIN steps[p] : k < Len(steps[p]) => steps[p][k].error = ""

\* a whole run that resumed active work: all seven calls were made
C5_Witness ==
    /\ pc[1] = "done"
    /\ ret[1] = 0
    /\ CallNames(1) = OrderWithVerification(TRUE)

\* C6: a run calls start at most once and complete at most once; complete is
\* called only after start succeeded, and on the mission that was selected
\* and started by this run.
C6_SingleShot ==
    \A p \in Orchestrators :
        /\ Count(p, "start_mission") <= 1
        /\ Count(p, "complete_mission") <= 1
        /\ \A k \in DOMAIN steps[p] :
             steps[p][k].call \in {"start_mission", "complete_mission"}
             => /\ mission_row[p] # <<>>
                /\ steps[p][k].id = mission_row[p][1].id
        /\ \A k \in DOMAIN steps[p] :
             steps[p][k].call = "complete_mission"
             => \E j \in 1..(k - 1) :
                  /\ steps[p][j].call = "start_mission"
                  /\ steps[p][j].error = ""
                  /\ steps[p][j].id = steps[p][k].id

\* the run completed its mission although the verification lookup had
\* reported another mission as the next candidate
C6_Witness ==
    /\ pc[1] = "done"
    /\ ret[1] = 0
    /\ Called(1, "complete_mission")
    /\ current_mission[1] # <<>>
    /\ current_mission[1][1].id # mission_id[1]

\* C7: when a run has ended, the store client and the mission runtime it
\* acquired have been closed.
C7_ReleasedOnExit ==
    \A p \in Orchestrators :
        pc[p] = "done" => (client[p] # "open" /\ runtime[p] # "open")

\* C8: a failed call is the last call of its run: the run has ended with
\* outcome 1 and reports that error, so nothing is queried after a failed
\* health check and complete is never called after a failed start.
C8_ErrorsAbort ==
    \A p \in Orchestrators :
        \A k \in DOMAIN steps[p] :
            steps[p][k].error # ""
            => /\ k = Len(steps[p])
               /\ pc[p] = "done"
               /\ ret[p] = 1
               /\ error[p] = steps[p][k].error

\* a later run whose start failed, after a run whose health check failed
C8_Witness ==
    /\ pc[1] = "done"
    /\ ret[1] = 1
    /\ LastCall(1).call = "start_mission"
    /\ LastCall(1).error = "StoreError"
    /\ runs >= 2

----------------------------------------------------------------------------
(* The lifecycle of a mission *)

StatusOf(ms, id) == {ms[i].status : i \in IndexOf(ms, id)}

LegalChange(from, to) ==
    \/ from \in {"Not Started", "Queued", "Current"} /\ to = "In Progress"
    \/ from \in {"In Progress", "Current"} /\ to = "Completed"

\* C9: every status change is new -> In Progress or active -> Completed, so
\* a Completed mission never changes again; start on a Completed mission
\* fails with InvalidTransition and leaves the store as it was; complete on
\* a mission that is not In Progress or Current fails with
\* InvalidTransition and leaves the store as it was.
C9_Lifecycle ==
    [][ /\ Len(missions') = Len(missions)
        /\ \A i \in DOMAIN missions :
             missions'[i].status # missions[i].status
             => LegalChange(missions[i].status, missions'[i].status)
        /\ \A p \in Orchestrators :
             (pc[p] = "start_mission" /\ pc'[p] # "start_mission"
                /\ StatusOf(missions, mission_id[p]) = {"Completed"})
             => /\ pc'[p] = "done" /\ ret'[p] = 1
                /\ error'[p] = "InvalidTransition"
                /\ missions' = missions /\ events' = events
        /\ \A p \in Orchestrators :
             (pc[p] = "complete_mission" /\ pc'[p] # "complete_mission"
                /\ StatusOf(missions, mission_id[p]) \cap {"In Progress", "Current"} = {})
             => /\ pc'[p] = "done" /\ ret'[p] = 1
                /\ error'[p] = "InvalidTransition"
                /\ missions' = missions /\ events' = events
      ]_vars

\* an orchestrator called start on a mission the other one had completed
C9_Witness ==
    \E p \in Orchestrators :
        /\ pc[p] = "done"
        /\ LastCall(p).call = "start_mission"
        /\ error[p] = "InvalidTransition"
        /\ StatusOf(missions, mission_id[p]) = {"Completed"}

\* an orchestrator called complete on a mission the other one had completed
C9_WitnessComplete ==
    \E p \in Orchestrators :
        /\ pc[p] = "done"
        /\ LastCall(p).call = "complete_mission"
        /\ error[p] = "InvalidTransition"

\* C10: (single orchestrator) after a run that failed at start the missions
\* and the events are what they were before the run; after a run that failed
\* at complete the selected mission is In Progress, every other mission is
\* as before, and the only event the run recorded is its Started event.
C10_NoPartialTransition ==
    \A p \in Orchestrators :
        (pc[p] = "done" /\ LastCall(p).error # "")
        => /\ LastCall(p).call = "start_mission"
                => (missions = pre[p] /\ events = preEvents[p])
           /\ LastCall(p).call = "complete_mission"
                => /\ StatusOf(missions, mission_id[p]) = {"In Progress"}
                   /\ \A i \in DOMAIN missions :
                        missions[i].id # mission_id[p] => missions[i] = pre[p][i]
                   /\ events = Append(preEvents[p],
                                      MissionEvent(mission_id[p], "Started", AGENT,
                                                   StartSummary(mission_id[p]), <<>>))

\* the run promoted a Queued mission and then failed at complete
C10_Witness ==
    /\ pc[1] = "done"
    /\ LastCall(1).call = "complete_mission"
    /\ LastCall(1).error # ""
    /\ StatusOf(pre[1], mission_id[1]) = {"Queued"}

\* a run failed at start on a mission that an earlier run had left In Progress
C10_WitnessStart ==
    /\ pc[1] = "done"
    /\ LastCall(1).call = "start_mission"
    /\ LastCall(1).error # ""
    /\ StatusOf(pre[1], mission_id[1]) = {"In Progress"}
    /\ Len(preEvents[1]) > 0

----------------------------------------------------------------------------
(* The audit trail *)

\* the kinds of the events recorded for mission id, in the order written
KindsOf(evs, id) ==
    LET OfId(e) == e.mission_id = id
        sel == SelectSeq(evs, OfId)
    IN [k \in DOMAIN sel |-> sel[k].kind]

\* C11, as claimed: every mission that reached Completed in a run has exactly
\* two events, a Started one followed by a Completed one.
C11_ExactlyTwoEvents ==
    \A i \in DOMAIN missions :
        (missions[i].status = "Completed" /\ KindsOf(events, missions[i].id) # <<>>)
        => KindsOf(events, missions[i].id) = <<"Started", "Completed">>

\* C11, amended: the events of a mission that reached Completed in a run are
\* one Started event for every run that started it, at least one, followed
\* by exactly one Completed event; they are exactly two when the completing
\* run was the first to start it.  A mission that is not Completed has no
\* Completed event.
C11_StartedThenCompleted ==
    /\ \A i \in DOMAIN missions :
         LET kinds == KindsOf(events, missions[i].id) IN
         IF missions[i].status = "Completed"
         THEN kinds # <<>>
              => /\ Len(kinds) >= 2
                 /\ kinds[Len(kinds)] = "Completed"
                 /\ \A k \in 1..(Len(kinds) - 1) : kinds[k] = "Started"
         ELSE \A k \in DOMAIN kinds : kinds[k] = "Started"
    /\ \A p \in Orchestrators :
         (pc[p] = "done" /\ ret[p] = 0 /\ KindsOf(preEvents[p], mission_id[p]) = <<>>)
         => KindsOf(events, mission_id[p]) = <<"Started", "Completed">>

\* a mission left In Progress by a run that failed at complete was resumed,
\* started again and completed by a later run
C11_Witness ==
    /\ pc[1] = "done"
    /\ ret[1] = 0
    /\ KindsOf(events, mission_id[1]) = <<"Started", "Started", "Completed">>

----------------------------------------------------------------------------
(* The next mission reported by complete *)

StatusesOf(ms) == [i \in DOMAIN ms |-> ms[i].status]

\* the status the two-tier rule prefers among those present in ms
PreferredStatus(ms) ==
    IF Has(ms, "Queued") THEN "Queued"
    ELSE IF Has(ms, "Not Started") THEN "Not Started"
    ELSE IF Has(ms, "In Progress") THEN "In Progress"
    ELSE "Current"

\* C12: (single orchestrator) after a successful run the next mission that
\* complete returned is the two-tier choice on the store as the completion
\* left it: none when no mission is new or active, otherwise the earliest
\* mission of the preferred status, and never the mission just completed.
\* For A: Queued, B: Not Started, C: In Progress the run selects A and the
\* next mission is B.
C12_NextAfterCompletion ==
    \A p \in Orchestrators :
        (pc[p] = "done" /\ ret[p] = 0)
        => /\ next_mission[p] # << mission_id[p] >>
           /\ next_mission[p] = <<>> <=> (~HasNewWork(missions) /\ ~HasActive(missions))
           /\ next_mission[p] # <<>>
                => \E i \in IndexOf(missions, next_mission[p][1]) :
                     /\ missions[i].status = PreferredStatus(missions)
                     /\ \A j \in DOMAIN missions :
                          missions[j].status = missions[i].status => i <= j
           /\ StatusesOf(pre[p]) = <<"Queued", "Not Started", "In Progress">>
                => /\ mission_id[p] = pre[p][1].id
                   /\ next_mission[p] = << pre[p][2].id >>

\* the run on A: Queued, B: Not Started, C: In Progress completed A
C12_Witness ==
    /\ pc[1] = "done"
    /\ ret[1] = 0
    /\ StatusesOf(pre[1]) = <<"Queued", "Not Started", "In Progress">>
    /\ StatusesOf(missions) = <<"Completed", "Not Started", "In Progress">>
    /\ next_mission[1] = << missions[2].id >>

\* C13: (single orchestrator) a run that selected a mission already In
\* Progress or Current calls start on it; start is not refused and leaves it
\* In Progress until complete; complete is not refused; a run that returns 0
\* leaves it Completed, and reports no next mission when every other mission
\* was Completed.
C13_ResumeActive ==
    \A p \in Orchestrators :
        status[p] \in {"In Progress", "Current"}
        => /\ pc[p] \in {"fetch_next_candidate", "work", "complete_mission"}
                => /\ Called(p, "start_mission")
                   /\ StatusOf(missions, mission_id[p]) = {"In Progress"}
           /\ \A k \in DOMAIN steps[p] : steps[p][k].error \in {"", "StoreError"}
           /\ (pc[p] = "done" /\ ret[p] = 0)
                => /\ Called(p, "start_mission")
                   /\ StatusOf(missions, mission_id[p]) = {"Completed"}
                   /\ (\A i \in DOMAIN pre[p] :
                          pre[p][i].id # mission_id[p] => pre[p][i].status = "Completed")
                        => next_mission[p] = <<>>

\* a Current mission, the only one not Completed, was resumed and completed
C13_Witness ==
    /\ pc[1] = "done"
    /\ ret[1] = 0
    /\ status[1] = "Current"
    /\ Len(missions) >= 2
    /\ next_mission[1] = <<>>
    /\ \A i \in DOMAIN missions : missions[i].status = "Completed"

----------------------------------------------------------------------------
(* The active set *)

ActiveCount(ms) ==
    Cardinality({i \in DOMAIN ms : ms[i].status \in {"In Progress", "Current"}})

\* C14, as claimed: (single orchestrator) a run that begins on a store with
\* at most one In Progress or Current mission never makes a second one
\* active; every table with at most one active mission is an initial table.
C14_SingleOccupancy ==
    \A p \in Orchestrators :
        (pc[p] # "idle" /\ ActiveCount(pre[p]) <= 1) => ActiveCount(missions) <= 1

\* C14, amended: (single orchestrator) a run raises the number of active
\* missions by at most one, and only while it has started a Queued or Not
\* Started mission that it has not completed; a run that returns 0 leaves no
\* more active missions than it found; single occupancy is kept by every
\* run that begins with no active mission or with no new work.
C14_ActiveSetGrowth ==
    \A p \in Orchestrators :
        pc[p] # "idle"
        => /\ ActiveCount(missions) <= ActiveCount(pre[p]) + 1
           /\ ActiveCount(missions) > ActiveCount(pre[p])
                => /\ status[p] \in {"Queued", "Not Started"}
                   /\ StatusOf(missions, mission_id[p]) = {"In Progress"}
                   /\ ~(pc[p] = "done" /\ ret[p] = 0)
           /\ (pc[p] = "done" /\ ret[p] = 0)
                => ActiveCount(missions) <= ActiveCount(pre[p])
           /\ (ActiveCount(pre[p]) <= 1 /\ (~HasActive(pre[p]) \/ ~HasNewWork(pre[p])))
                => ActiveCount(missions) <= 1

\* the run found one active mission and new work, and started the new work
C14_Witness ==
    /\ pc[1] = "work"
    /\ ActiveCount(pre[1]) = 1
    /\ ActiveCount(missions) = 2

----------------------------------------------------------------------------
(* Repeated runs *)

AllCompleted(ms) == \A i \in DOMAIN ms : ms[i].status = "Completed"

\* C15: when the script is run again and again and its steps eventually
\* succeed, from some point on every mission is Completed, the missions that
\* were In Progress or Current included; and every run that begins when all
\* missions are Completed selects nothing and returns 1.
C15_NoOrphan ==
    /\ <>[]AllCompleted(missions)
    /\ [](\A p \in Orchestrators :
            (pc[p] = "done" /\ AllCompleted(pre[p]))
            => (ret[p] = 1 /\ mission_row[p] = <<>>))

\* every mission is Completed, one of them after having been left In
\* Progress by a failed run and resumed, and a further run found nothing
C15_Witness ==
    /\ pc[1] = "done"
    /\ error[1] = "NoMission"
    /\ Len(missions) >= 2
    /\ AllCompleted(missions)
    /\ \E i \in DOMAIN missions :
         KindsOf(events, missions[i].id) = <<"Started", "Started", "Completed">>

----------------------------------------------------------------------------
(* The verification lookup *)

\* C16: once the verification lookup after a successful start has been made,
\* the mission it returned is the mission that was started.
C16_VerifiesStartedMission ==
    \A p \in Orchestrators :
        pc[p] \in {"work", "complete_mission"}
        => /\ current_mission[p] # <<>>
           /\ current_mission[p][1].id = mission_id[p]

----------------------------------------------------------------------------
(* Two orchestrators on one store *)

\* orchestrator p has started its mission and not yet called complete
Driving(p) == pc[p] \in {"fetch_next_candidate", "work", "complete_mission"}

CompletedEvents(id) ==
    Cardinality({k \in DOMAIN events :
                    events[k].mission_id = id /\ events[k].kind = "Completed"})

----------------------------------------------------------------------------
(* Frame and outcome of a run *)

StartSucceeded(p) ==
    \E k \in DOMAIN steps[p] :
        steps[p][k].call = "start_mission" /\ steps[p][k].error = ""

\* C18: (single orchestrator) during and after a run the table has the same
\* rows with the same ids in the same order as when the run began; only the
\* selected mission can have another status; until start has succeeded the
\* missions and the events are what they were.
C18_Frame ==
    \A p \in Orchestrators :
        pc[p] # "idle"
        => /\ Len(missions) = Len(pre[p])
           /\ \A i \in DOMAIN missions :
                /\ missions[i].id = pre[p][i].id
                /\ missions[i].status # pre[p][i].status
                     => (mission_row[p] # <<>> /\ missions[i].id = mission_row[p][1].id)
           /\ ~StartSucceeded(p) => (missions = pre[p] /\ events = preEvents[p])

\* a run on three missions changed the status of the second one only
C18_Witness ==
    /\ pc[1] = "done"
    /\ Len(missions) = 3
    /\ missions[2].status # pre[1][2].status
    /\ missions[1] = pre[1][1]
    /\ missions[3] = pre[1][3]

CompletedCount(ms) == Cardinality({i \in DOMAIN ms : ms[i].status = "Completed"})

\* C19: (single orchestrator) a run that returned 0 made all its calls, from
\* the health check to complete, without an error; its mission is Completed
\* and the store holds exactly one more Completed mission than before.
C19_SuccessMeansCompleted ==
    \A p \in Orchestrators :
        (pc[p] = "done" /\ ret[p] = 0)
        => /\ \A k \in DOMAIN steps[p] : steps[p][k].error = ""
           /\ \A name \in {"health_check", "new_work_query", "start_mission",
                          "complete_mission"} : Called(p, name)
           /\ mission_row[p] # <<>>
           /\ StatusOf(missions, mission_id[p]) = {"Completed"}
           /\ StatusOf(pre[p], mission_id[p]) \cap {"Completed"} = {}
           /\ CompletedCount(missions) = CompletedCount(pre[p]) + 1

\* a later run returned 0 on a store that already held a Completed mission
C19_Witness ==
    /\ pc[1] = "done"
    /\ ret[1] = 0
    /\ runs >= 2
    /\ CompletedCount(pre[1]) >= 1
    /\ CompletedCount(missions) = CompletedCount(pre[1]) + 1

====
